---- MODULE Spec2Model ----
(***************************************************************************)
(* Model of examples/subclass/src/messages.cc and messages.h: two          *)
(* process-wide registries of producers and displayers, the registration   *)
(* functions, and run_demo, which walks the registries and calls the       *)
(* virtual methods of the registered objects.                              *)
(*                                                                         *)
(* The program is single threaded: a registration call is taken only while *)
(* run_demo is not executing.  Registered objects are assumed alive for    *)
(* the lifetime of the registries (the stated obligation of the caller).   *)
(*                                                                         *)
(* A text is the sequence of the lines it consists of: a text with one     *)
(* embedded line break is a sequence of two strings.  The console is the   *)
(* sequence of the completed lines; every output statement of the source   *)
(* ends with std::endl, so no partial line is ever left on the console.    *)
(***************************************************************************)
EXTENDS Integers, Sequences, FiniteSets, TLC

----------------------------------------------------------------------------
(* Bounds of the model *)

MaxReg == 2
MaxRuns == 1
MaxTime == 1

----------------------------------------------------------------------------
(* The objects *)

cpp_producer == "cpp_producer"
cpp_displayer == "cpp_displayer"

\* implementations of the abstract classes supplied from outside messages.cc
rust_producer == "rust_producer"
rust_displayer == "rust_displayer"

MessageProducer == {cpp_producer, rust_producer}
MessageDisplayer == {cpp_displayer, rust_displayer}

\* what a caller of the registration API can pass: its own objects
ExternalProducers == {rust_producer}
ExternalDisplayers == {rust_displayer}

VARIABLES
    producers,   \* std::vector of references to MessageProducer
    displayers,  \* std::vector of references to MessageDisplayer
    now,         \* the wall clock, seconds since the Epoch
    pc,          \* position of control inside run_demo, "idle" outside
    i,           \* position of the range-for over producers (1-based)
    j,           \* position of the range-for over displayers (1-based)
    msg,         \* local msg of run_demo
    pod,         \* local pod of run_demo
    heap,        \* the float cells allocated with new and never freed
    out,         \* console lines written since the last run_demo began
    calls,       \* virtual calls made since the last run_demo began
    result,      \* how the last run_demo ended, as seen by its caller
    runs         \* number of run_demo calls so far

vars == <<producers, displayers, now, pc, i, j, msg, pod, heap, out, calls,
          result, runs>>

----------------------------------------------------------------------------
(* Formatting *)

TwoDigits(n) == IF n < 10 THEN "0" \o ToString(n) ELSE ToString(n)

\* std::asctime(std::localtime(&t)) without its final line break, for an
\* instant of the first day of the Epoch, time zone UTC
asctime(t) ==
    "Thu Jan  1 " \o TwoDigits((t \div 3600) % 24) \o ":"
                  \o TwoDigits((t \div 60) % 60) \o ":"
                  \o TwoDigits(t % 60) \o " 1970"

\* operator<< of a float with the default precision (6 significant digits,
\* no trailing zeros, no decimal point for a whole number below 10^6)
FormatFloat(v) == ToString(v)

\* os << prefix << text << std::endl, as completed lines
WriteLn(prefix, text) == <<prefix \o Head(text)>> \o Tail(text)

EmptyLine == <<"">>

----------------------------------------------------------------------------
(* The virtual methods *)

\* CppExampleProducer::get_message: asctime ends its result with a line
\* break, so the text has two lines
CppExampleProducer_get_message(t) ==
    <<asctime(t), ToString(t) \o " seconds since the Epoch">>

RustMessage == <<"Hello from Rust">>

get_message(p, t) ==
    IF p = cpp_producer THEN CppExampleProducer_get_message(t)
    ELSE RustMessage

\* CppExampleDisplayer::display_message
CppExampleDisplayer_display_message(m) == WriteLn("Message: ", m)

\* the external displayer prints the text as it is
display_message(d, m) ==
    IF d = cpp_displayer THEN CppExampleDisplayer_display_message(m)
    ELSE WriteLn("", m)

\* CppExampleDisplayer::do_something_pod: prints pod.data[0][0]
CppExampleDisplayer_do_something_pod(h, pd) ==
    WriteLn("From C++: ", <<FormatFloat(h[pd.data])>>)

RustValue == 7

\* the external displayer prints nothing and overwrites pod.data[0][0]
do_something_pod_out(d, h, pd) ==
    IF d = cpp_displayer THEN CppExampleDisplayer_do_something_pod(h, pd)
    ELSE <<>>

do_something_pod_heap(d, h, pd) ==
    IF d = cpp_displayer THEN h
    ELSE [h EXCEPT ![pd.data] = RustValue]

\* a call into an external implementation may fail; the native ones have
\* no failure path
MayFail(obj) == obj \notin {cpp_producer, cpp_displayer}

----------------------------------------------------------------------------
(* Helpers *)

\* faulty variant: inserts at the front
push_back_front(v, x) == <<x>> \o v

push_back(v, x) == Append(v, x)

\* console lines with their origin: the object and the function that wrote them
Tag(who, fn, lines) ==
    [k \in 1..Len(lines) |-> [by |-> who, fn |-> fn, line |-> lines[k]]]

NoPod == [foo |-> 0, bar |-> "none", data |-> 0]
NoResult == [kind |-> "none", what |-> <<>>]
Returned == [kind |-> "returned", what |-> <<>>]
Threw(e) == [kind |-> "threw", what |-> e]

Call(fn, obj, ok, text, pd, val) ==
    [fn |-> fn, obj |-> obj, p |-> i, d |-> IF fn = "get_message" THEN 0 ELSE j,
     ok |-> ok, text |-> text, pod |-> pd, val |-> val]

----------------------------------------------------------------------------
Init ==
    /\ producers = <<>>
    /\ displayers = <<>>
    /\ now = 0
    /\ pc = "idle"
    /\ i = 0
    /\ j = 0
    /\ msg = <<>>
    /\ pod = NoPod
    /\ heap = <<>>
    /\ out = <<>>
    /\ calls = <<>>
    /\ result = NoResult
    /\ runs = 0

\* time passes
Tick ==
    /\ now < MaxTime
    /\ now' = now + 1
    /\ UNCHANGED <<producers, displayers, pc, i, j, msg, pod, heap, out,
                   calls, result, runs>>

----------------------------------------------------------------------------
(* Registration *)

register_displayer(displayer) ==
    /\ pc = "idle"
    /\ Len(displayers) < MaxReg
    /\ displayers' = push_back(displayers, displayer)
    /\ UNCHANGED <<producers, now, pc, i, j, msg, pod, heap, out, calls,
                   result, runs>>

register_producer(producer) ==
    /\ pc = "idle"
    /\ Len(producers) < MaxReg
    /\ producers' = push_back(producers, producer)
    /\ UNCHANGED <<displayers, now, pc, i, j, msg, pod, heap, out, calls,
                   result, runs>>

\* faulty variant: forgets the displayer
register_cpp_thingies_producer_only ==
    /\ pc = "idle"
    /\ Len(producers) < MaxReg
    /\ Len(displayers) < MaxReg
    /\ producers' = push_back(producers, cpp_producer)
    /\ UNCHANGED <<displayers, now, pc, i, j, msg, pod, heap, out, calls,
                   result, runs>>

register_cpp_thingies ==
    /\ pc = "idle"
    /\ Len(producers) < MaxReg
    /\ Len(displayers) < MaxReg
    /\ producers' = push_back(producers, cpp_producer)
    /\ displayers' = push_back(displayers, cpp_displayer)
    /\ UNCHANGED <<now, pc, i, j, msg, pod, heap, out, calls, result, runs>>

----------------------------------------------------------------------------
(* run_demo, statement by statement *)

\* the caller enters run_demo
run_demo_enter ==
    /\ pc = "idle"
    /\ runs < MaxRuns
    /\ runs' = runs + 1
    /\ pc' = "outer"
    /\ i' = 1
    /\ j' = 0
    /\ msg' = <<>>
    /\ pod' = NoPod
    /\ out' = <<>>
    /\ calls' = <<>>
    /\ result' = NoResult
    /\ UNCHANGED <<producers, displayers, now, heap>>

\* faulty variant: the loop body runs once before the first test
run_demo_outer_do_while ==
    /\ pc = "outer"
    /\ IF i > Len(producers)
       THEN IF i = 1
            THEN /\ pc' = "endl_outer"
                 /\ UNCHANGED result
            ELSE /\ pc' = "idle"
                 /\ result' = Returned
       ELSE /\ pc' = "get_message"
            /\ UNCHANGED result
    /\ UNCHANGED <<producers, displayers, now, i, j, msg, pod, heap, out,
                   calls, runs>>

\* faulty variant: the registries are cleared when run_demo returns
run_demo_outer_clear ==
    /\ pc = "outer"
    /\ IF i > Len(producers)
       THEN /\ pc' = "idle"
            /\ result' = Returned
            /\ producers' = <<>>
            /\ displayers' = <<>>
       ELSE /\ pc' = "get_message"
            /\ UNCHANGED <<result, producers, displayers>>
    /\ UNCHANGED <<now, i, j, msg, pod, heap, out, calls, runs>>

\* for (auto& producer: producers): the loop test; run_demo returns when
\* the range is exhausted
run_demo_outer ==
    /\ pc = "outer"
    /\ IF i > Len(producers)
       THEN /\ pc' = "idle"
            /\ result' = Returned
       ELSE /\ pc' = "get_message"
            /\ UNCHANGED result
    /\ UNCHANGED <<producers, displayers, now, i, j, msg, pod, heap, out,
                   calls, runs>>

\* auto msg = producer.get().get_message();
run_demo_get_message ==
    /\ pc = "get_message"
    /\ LET p == producers[i]
           m == get_message(p, now)
       IN  \/ /\ msg' = m
              /\ calls' = Append(calls, Call("get_message", p, TRUE, m, NoPod, 0))
              /\ j' = 1
              /\ pc' = "inner"
              /\ UNCHANGED result
           \/ /\ MayFail(p)
              /\ calls' = Append(calls, Call("get_message", p, FALSE, <<>>, NoPod, 0))
              /\ pc' = "idle"
              /\ result' = Threw(<<"get_message", p>>)
              /\ UNCHANGED <<msg, j>>
    /\ UNCHANGED <<producers, displayers, now, i, pod, heap, out, runs>>

\* faulty variant: the last displayer is left out
run_demo_inner_off_by_one ==
    /\ pc = "inner"
    /\ pc' = IF j >= Len(displayers) THEN "endl_outer" ELSE "display_message"
    /\ UNCHANGED <<producers, displayers, now, i, j, msg, pod, heap, out,
                   calls, result, runs>>

\* for (auto& displayer: displayers): the loop test
run_demo_inner ==
    /\ pc = "inner"
    /\ pc' = IF j > Len(displayers) THEN "endl_outer" ELSE "display_message"
    /\ UNCHANGED <<producers, displayers, now, i, j, msg, pod, heap, out,
                   calls, result, runs>>

\* faulty variant: a failure of display_message is swallowed
run_demo_display_message_swallow ==
    /\ pc = "display_message"
    /\ LET d == displayers[j]
       IN  \/ /\ out' = out \o Tag(d, "display_message", display_message(d, msg))
              /\ calls' = Append(calls, Call("display_message", d, TRUE, msg, NoPod, 0))
              /\ pc' = "new_pod"
              /\ UNCHANGED result
           \/ /\ MayFail(d)
              /\ calls' = Append(calls, Call("display_message", d, FALSE, msg, NoPod, 0))
              /\ pc' = "new_pod"
              /\ UNCHANGED <<result, out>>
    /\ UNCHANGED <<producers, displayers, now, i, j, msg, pod, heap, runs>>

\* faulty variant: the message is computed again for every displayer
run_demo_display_message_recompute ==
    /\ pc = "display_message"
    /\ LET d == displayers[j]
           m == get_message(producers[i], now)
       IN  \/ /\ out' = out \o Tag(d, "display_message", display_message(d, m))
              /\ calls' = Append(calls, Call("display_message", d, TRUE, m, NoPod, 0))
              /\ pc' = "new_pod"
              /\ UNCHANGED result
           \/ /\ MayFail(d)
              /\ calls' = Append(calls, Call("display_message", d, FALSE, m, NoPod, 0))
              /\ pc' = "idle"
              /\ result' = Threw(<<"display_message", d>>)
              /\ UNCHANGED out
    /\ UNCHANGED <<producers, displayers, now, i, j, msg, pod, heap, runs>>

\* displayer.get().display_message(msg);
run_demo_display_message ==
    /\ pc = "display_message"
    /\ LET d == displayers[j]
       IN  \/ /\ out' = out \o Tag(d, "display_message", display_message(d, msg))
              /\ calls' = Append(calls, Call("display_message", d, TRUE, msg, NoPod, 0))
              /\ pc' = "new_pod"
              /\ UNCHANGED result
           \/ /\ MayFail(d)
              /\ calls' = Append(calls, Call("display_message", d, FALSE, msg, NoPod, 0))
              /\ pc' = "idle"
              /\ result' = Threw(<<"display_message", d>>)
              /\ UNCHANGED out
    /\ UNCHANGED <<producers, displayers, now, i, j, msg, pod, heap, runs>>

\* faulty variant: the buffer of the previous record is used again
run_demo_new_pod_reuse ==
    /\ pc = "new_pod"
    /\ IF heap = <<>>
       THEN /\ heap' = Append(heap, 101)
            /\ pod' = [foo |-> 1, bar |-> "indeterminate", data |-> 1]
       ELSE /\ heap' = heap
            /\ pod' = [foo |-> 1, bar |-> "indeterminate", data |-> Len(heap)]
    /\ pc' = "do_something_pod"
    /\ UNCHANGED <<producers, displayers, now, i, j, msg, out, calls, result,
                   runs>>

\* MyPod pod; pod.foo = 1; pod.data = new float*[1];
\* pod.data[0] = new float[1]; pod.data[0][0] = 101.0;
\* pod.bar is left uninitialized and is read by nothing in the model
run_demo_new_pod ==
    /\ pc = "new_pod"
    /\ heap' = Append(heap, 101)
    /\ pod' = [foo |-> 1, bar |-> "indeterminate", data |-> Len(heap) + 1]
    /\ pc' = "do_something_pod"
    /\ UNCHANGED <<producers, displayers, now, i, j, msg, out, calls, result,
                   runs>>

\* displayer.get().do_something_pod(pod);
run_demo_do_something_pod ==
    /\ pc = "do_something_pod"
    /\ LET d == displayers[j]
       IN  \/ /\ out' = out \o Tag(d, "do_something_pod", do_something_pod_out(d, heap, pod))
              /\ heap' = do_something_pod_heap(d, heap, pod)
              /\ calls' = Append(calls, Call("do_something_pod", d, TRUE, <<>>,
                                             pod, heap[pod.data]))
              /\ pc' = "endl_inner"
              /\ UNCHANGED result
           \/ /\ MayFail(d)
              /\ calls' = Append(calls, Call("do_something_pod", d, FALSE, <<>>,
                                             pod, heap[pod.data]))
              /\ pc' = "idle"
              /\ result' = Threw(<<"do_something_pod", d>>)
              /\ UNCHANGED <<out, heap>>
    /\ UNCHANGED <<producers, displayers, now, i, j, msg, pod, runs>>

\* faulty variant: no blank line after a displayer
run_demo_endl_inner_silent ==
    /\ pc = "endl_inner"
    /\ j' = j + 1
    /\ pc' = "inner"
    /\ UNCHANGED <<producers, displayers, now, i, msg, pod, heap, out, calls,
                   result, runs>>

\* std::cout << std::endl; at the end of the inner loop body
run_demo_endl_inner ==
    /\ pc = "endl_inner"
    /\ out' = out \o Tag("run_demo", "run_demo", EmptyLine)
    /\ j' = j + 1
    /\ pc' = "inner"
    /\ UNCHANGED <<producers, displayers, now, i, msg, pod, heap, calls,
                   result, runs>>

\* faulty variant: no blank line after a producer
run_demo_endl_outer_silent ==
    /\ pc = "endl_outer"
    /\ i' = i + 1
    /\ pc' = "outer"
    /\ UNCHANGED <<producers, displayers, now, j, msg, pod, heap, out, calls,
                   result, runs>>

\* std::cout << std::endl; at the end of the outer loop body
run_demo_endl_outer ==
    /\ pc = "endl_outer"
    /\ out' = out \o Tag("run_demo", "run_demo", EmptyLine)
    /\ i' = i + 1
    /\ pc' = "outer"
    /\ UNCHANGED <<producers, displayers, now, j, msg, pod, heap, calls,
                   result, runs>>

----------------------------------------------------------------------------
Next ==
    \/ Tick
    \/ \E displayer \in ExternalDisplayers : register_displayer(displayer)
    \/ \E producer \in ExternalProducers : register_producer(producer)
    \/ register_cpp_thingies
    \/ run_demo_enter
    \/ run_demo_outer
    \/ run_demo_get_message
    \/ run_demo_inner
    \/ run_demo_display_message
    \/ run_demo_new_pod
    \/ run_demo_do_something_pod
    \/ run_demo_endl_inner
    \/ run_demo_endl_outer

Spec == Init /\ [][Next]_vars

----------------------------------------------------------------------------
(* Vocabulary of the properties *)

P == Len(producers)
D == Len(displayers)

Running == pc # "idle"

\* run_demo has exhausted the producers and is about to return
AtReturn == pc = "outer" /\ i > P

IsPrefix(s, t) == Len(s) <= Len(t) /\ \A k \in 1..Len(s) : s[k] = t[k]

\* new is old with exactly x added at the end
AppendedOne(old, new, x) ==
    /\ Len(new) = Len(old) + 1
    /\ new[Len(new)] = x
    /\ \A k \in 1..Len(old) : new[k] = old[k]

CallsOf(fn) == SelectSeq(calls, LAMBDA c : c.fn = fn)

\* the (producer position, displayer position, displayer) of the calls of fn
Invocations(fn) ==
    LET cs == CallsOf(fn)
    IN  [k \in 1..Len(cs) |-> <<cs[k].p, cs[k].d, cs[k].obj>>]

\* producers outer, displayers inner, both in registration order
ExpectedInvocations ==
    [k \in 1..(P * D) |->
        <<((k - 1) \div D) + 1, ((k - 1) % D) + 1,
          displayers[((k - 1) % D) + 1]>>]

RECURSIVE Flatten(_)
Flatten(ss) == IF ss = <<>> THEN <<>> ELSE Head(ss) \o Flatten(Tail(ss))

Lines(o) == [k \in 1..Len(o) |-> o[k].line]

Count(s, Test(_)) == Len(SelectSeq(s, Test))

AllNative == \A k \in 1..D : displayers[k] = cpp_displayer

----------------------------------------------------------------------------
(* C1: while run_demo executes, the displayer invocations made so far are  *)
(* an initial part of (p1,d1),(p1,d2),...,(p1,dD),(p2,d1),...,(pP,dD), and *)
(* when run_demo is about to return they are exactly that sequence; an     *)
(* entry registered k times is visited k times.                            *)
C1_InvocationOrder ==
    Running =>
        /\ IsPrefix(Invocations("display_message"), ExpectedInvocations)
        /\ IsPrefix(Invocations("do_something_pod"), ExpectedInvocations)
        /\ AtReturn =>
            /\ Invocations("display_message") = ExpectedInvocations
            /\ Invocations("do_something_pod") = ExpectedInvocations

C1_Witness ==
    /\ AtReturn
    /\ P = 2 /\ D = 2
    /\ displayers[1] = displayers[2]
    /\ Len(CallsOf("do_something_pod")) = 4

----------------------------------------------------------------------------
(* C3: register_producer and register_displayer each add exactly their     *)
(* argument at the end of their registry and leave the earlier entries and *)
(* the other registry as they were, also when the argument is already      *)
(* registered.                                                             *)
C3_RegisterAppends ==
    [][ /\ \A x \in ExternalProducers :
              register_producer(x) =>
                  AppendedOne(producers, producers', x)
                  /\ displayers' = displayers
        /\ \A x \in ExternalDisplayers :
              register_displayer(x) =>
                  AppendedOne(displayers, displayers', x)
                  /\ producers' = producers ]_vars

C3_Witness ==
    /\ producers = <<rust_producer, rust_producer>>
    /\ displayers = <<rust_displayer, rust_displayer>>

----------------------------------------------------------------------------
(* C4: every register_cpp_thingies adds cpp_producer at the end of the     *)
(* producer registry and cpp_displayer at the end of the displayer         *)
(* registry, one entry each, and nothing else.                             *)
C4_CppThingies ==
    [][ register_cpp_thingies =>
            /\ AppendedOne(producers, producers', cpp_producer)
            /\ AppendedOne(displayers, displayers', cpp_displayer) ]_vars

C4_Witness ==
    /\ producers = <<rust_producer, cpp_producer>>
    /\ displayers = <<cpp_displayer>>

----------------------------------------------------------------------------
(* C6: with no producer registered, run_demo writes nothing and calls no   *)
(* producer and no displayer, however many displayers are registered.      *)
C6_NoProducers ==
    (Running /\ P = 0) => (out = <<>> /\ calls = <<>> /\ AtReturn)

C6_Witness == AtReturn /\ P = 0 /\ D = 2

----------------------------------------------------------------------------
(* C8: the registries are empty at startup, every step leaves each         *)
(* registry as an initial part of its next content, and no step of         *)
(* run_demo changes a registry.                                            *)
C8_NeverRemoved ==
    /\ producers = <<>> /\ displayers = <<>>
    /\ [][ /\ IsPrefix(producers, producers')
           /\ IsPrefix(displayers, displayers')
           /\ (Running \/ pc' # "idle") =>
                  (producers' = producers /\ displayers' = displayers) ]_vars

\* a run has returned and a producer was registered after it
C8_Witness ==
    /\ result.kind = "returned"
    /\ runs = 1
    /\ P = 2 /\ D = 2
    /\ Len(CallsOf("get_message")) = 1
    /\ Len(CallsOf("display_message")) = 2

----------------------------------------------------------------------------
(* The console output of a run with native displayers only *)

Messages ==
    LET gm == CallsOf("get_message") IN [k \in 1..Len(gm) |-> gm[k].text]

\* what the native displayer and run_demo write for one displayer entry
ExpectedEntry(m) ==
    <<"Message: " \o m[1]>> \o Tail(m) \o <<"From C++: 101", "">>

\* the same for one producer: its entries and the blank line after them
ExpectedBlock(m) ==
    Flatten([k \in 1..D |-> ExpectedEntry(m)]) \o <<"">>

ExpectedOut == Flatten([k \in 1..Len(Messages) |-> ExpectedBlock(Messages[k])])

\* line breaks inside the messages obtained in this run
EmbeddedBreaks == Len(Flatten(Messages)) - Len(Messages)

(* C2, as stated: a run with P producers and D native displayers writes    *)
(* exactly P*(3*D+1) lines.                                                *)
C2_Original ==
    (AtReturn /\ AllNative) => Len(out) = P * (3 * D + 1)

(* C2, amended: with native displayers only, the run writes for each       *)
(* producer/displayer pair "Message: " and the text, which takes one line  *)
(* more for each line break inside the text, then "From C++: 101", then a  *)
(* blank line, and one more blank line after each producer's displayers;   *)
(* so it writes P*(3*D+1) lines plus D lines for each line break inside a  *)
(* message, and one blank line per producer when D = 0.                    *)
C2_OutputFormat ==
    (AtReturn /\ AllNative) =>
        /\ Len(Messages) = P
        /\ Lines(out) = ExpectedOut
        /\ Len(out) = P * (3 * D + 1) + D * EmbeddedBreaks
        /\ D = 0 => Lines(out) = [k \in 1..P |-> ""]

C2_Witness ==
    /\ AtReturn /\ AllNative
    /\ producers = <<cpp_producer, rust_producer>>
    /\ D = 1
    /\ Len(out) = 9

----------------------------------------------------------------------------
IsMessageLine(l) ==
    \E k \in 1..Len(Messages) : l.line = "Message: " \o Messages[k][1]

IsFromCppLine(l) ==
    l.line \in {"From C++: 101", "From C++: " \o ToString(RustValue)}

IsBlankLine(l) == l.line = ""

(* C5, as stated: with one producer and two displayers the run writes two  *)
(* "Message:" lines, two "From C++:" lines and three blank lines.          *)
C5_Original ==
    (AtReturn /\ P = 1 /\ D = 2) =>
        /\ Count(out, IsMessageLine) = 2
        /\ Count(out, IsFromCppLine) = 2
        /\ Count(out, IsBlankLine) = 3

(* C5, amended: with one producer and two displayers, a run_demo about to  *)
(* return has called display_message and then do_something_pod on the      *)
(* first displayer, then both on the second; it has itself written a blank *)
(* line after each displayer and one more at the end; a displayer entry    *)
(* that is the native displayer has written "Message: " with the text and  *)
(* "From C++: 101" before its blank line.  What another displayer writes   *)
(* is its own business.                                                    *)
C5_OneProducerTwoDisplayers ==
    (AtReturn /\ P = 1 /\ D = 2) =>
        LET m == Messages[1]
            Entry(k) ==
                (IF displayers[k] = cpp_displayer
                 THEN <<"Message: " \o m[1]>> \o Tail(m) \o <<"From C++: 101">>
                 ELSE <<>>) \o <<"">>
            own == SelectSeq(out, LAMBDA l : l.by \in {"run_demo", cpp_displayer})
        IN  /\ Len(Messages) = 1
            /\ [k \in 1..Len(calls) |-> <<calls[k].fn, calls[k].obj>>] =
                   << <<"get_message", producers[1]>>,
                      <<"display_message", displayers[1]>>,
                      <<"do_something_pod", displayers[1]>>,
                      <<"display_message", displayers[2]>>,
                      <<"do_something_pod", displayers[2]>> >>
            /\ Lines(own) = Entry(1) \o Entry(2) \o <<"">>
            /\ Count(out, LAMBDA l : l.by = "run_demo") = 3
            /\ out[Len(out)].by = "run_demo"
            /\ out[Len(out) - 1].by = "run_demo"

C5_Witness ==
    /\ AtReturn
    /\ producers = <<cpp_producer>>
    /\ displayers = <<rust_displayer, cpp_displayer>>
    /\ Count(out, IsFromCppLine) = 1

----------------------------------------------------------------------------
Failed(k) == ~calls[k].ok

HasFailed == \E k \in 1..Len(calls) : Failed(k)

(* C7: a failed call is the last call of its run: run_demo is left at      *)
(* once, its caller sees the failure of that call, and until run_demo is   *)
(* entered again no call is made and nothing is written.  A run ends with  *)
(* a failure only if its last call failed.                                 *)
C7_FailureAborts ==
    /\ [](\A k \in 1..Len(calls) :
            Failed(k) =>
                /\ k = Len(calls)
                /\ pc = "idle"
                /\ result = [kind |-> "threw",
                             what |-> <<calls[k].fn, calls[k].obj>>])
    /\ [](result.kind = "threw" => (calls # <<>> /\ Failed(Len(calls))))
    /\ [][ (HasFailed /\ runs' = runs) =>
               (calls' = calls /\ out' = out /\ pc' = "idle"
                /\ result' = result) ]_vars

\* a failure in the middle of a run: output was written before it, and a
\* displayer and a producer were still to be visited
C7_Witness ==
    /\ result.kind = "threw"
    /\ result.what = <<"display_message", rust_displayer>>
    /\ out # <<>>
    /\ calls[Len(calls)].p < P

----------------------------------------------------------------------------
(* C9: the get_message calls of a run are one per producer entry, in       *)
(* registration order, up to the producer being processed; every displayer *)
(* call for a producer comes after that producer's get_message, and the    *)
(* text passed to display_message is the text that get_message returned;   *)
(* get_message is also called when no displayer is registered.             *)
C9_MessageOnce ==
    Running =>
        LET gm == CallsOf("get_message")
            n == IF pc \in {"outer", "get_message"} THEN i - 1 ELSE i
        IN  /\ [k \in 1..Len(gm) |-> <<gm[k].p, gm[k].obj>>] =
                   [k \in 1..n |-> <<k, producers[k]>>]
            /\ \A k \in 1..Len(calls) :
                  calls[k].fn # "get_message" =>
                      \E g \in 1..(k - 1) :
                          /\ calls[g].fn = "get_message"
                          /\ calls[g].ok
                          /\ calls[g].p = calls[k].p
                          /\ calls[k].fn = "display_message" =>
                                 calls[k].text = calls[g].text

\* the clock moved between get_message and the second displayer
C9_Witness ==
    /\ AtReturn
    /\ producers = <<cpp_producer>>
    /\ D = 2
    /\ Messages[1] # CppExampleProducer_get_message(now)
    /\ Len(CallsOf("display_message")) = 2

----------------------------------------------------------------------------
====
